---- MODULE Spec2Model ----
(***************************************************************************)
(* A model of moon23k/NMT_BERT: the fused BERT/transformer translation     *)
(* model (model/fused.py) and the start-up of run.py.                      *)
(*                                                                         *)
(* Token-id tensors are sequences of rows (batch first); python position k *)
(* is index k+1 here.  Hidden-state tensors are symbolic terms: a tuple    *)
(* whose head names the operation that produced it, so that the data flow  *)
(* through the layers (which module read which value, with which weights)  *)
(* is what is compared.  A python exception ends the call: pc = "raised"   *)
(* and err names the exception.                                            *)
(***************************************************************************)
EXTENDS Integers, Sequences, FiniteSets, TLC

VARIABLES
    call,            \* the routine a behaviour runs
    pc,              \* the position in it
    err,             \* the exception that ended it, or "none"
    pad_id,          \* self.pad_id
    max_len,         \* self.max_len
    input_ids,       \* source token ids, batch x src_len
    attention_mask,  \* the source attention mask handed to BERT
    labels,          \* target token ids, batch x trg_len
    shifted_labels,  \* forward: shift_right(labels)
    e_mask,          \* the encoder-side mask as the routine holds it
    d_mask,          \* the decoder-side mask
    bert_out,        \* BERT's last hidden state
    memory,          \* the encoder stack's output
    x,               \* the hidden state inside a stack
    layer,           \* the index of the layer a stack is in
    residual,        \* a layer's local: residual
    s,               \* a layer's local: s
    b,               \* a layer's local: b
    e,               \* a decoder layer's local: e
    m,               \* a stack's argument: mask (encoder) / memory (decoder)
    bo,              \* a stack's argument: bert_out
    calls,           \* the stack and layer invocations made, with their arguments
    preds,           \* genreate: the output buffer
    i,               \* genreate: the loop index
    steps,           \* genreate: decoder invocations made
    task,            \* run.py: -task
    mode,            \* run.py: -mode
    model_name,      \* run.py: -model
    ckpt_exists      \* run.py: os.path.exists(config.ckpt)

vars == <<call, pc, err, pad_id, max_len, input_ids, attention_mask, labels,
          shifted_labels, e_mask, d_mask, bert_out, memory, x, layer, residual,
          s, b, e, m, bo, calls, preds, i, steps, task, mode,
          model_name, ckpt_exists>>

(***************************************************************************)
(* Bounds of the model.                                                    *)
(***************************************************************************)
MaxTok == 2
MaxBatch == 2
MaxSrc == 2
MaxTrg == 3
MaxLen == 2
MaxGen == 3
MaxDec == 2
NLayers == 2

Tokens == 0..MaxTok
PadIds == {0, 1}

\* All batch x len matrices of token ids.
Matrices(nb, len) == [1..nb -> [1..len -> Tokens]]

NoTerm == <<"none">>
NoMask == [kind |-> "none", bits |-> <<>>]
NoIds == <<>>

(***************************************************************************)
(* FusedModel: masks and the label shift.                                  *)
(***************************************************************************)

\* (x != pad_id).unsqueeze(1).unsqueeze(2): batch x 1 (heads) x 1 (queries) x
\* len; bits[b][1][j] is the entry of key j (the head dimension is left out).
pad_mask(t) ==
    [kind |-> "tensor",
     bits |-> [bb \in DOMAIN t |-> <<[j \in DOMAIN t[bb] |-> t[bb][j] # pad_id]>>]]

\* triu(ones(1, n, n), diagonal=1) == 0: true where key j is not after query q.
subsequent_mask(n) == [q \in 1..n |-> [j \in 1..n |-> ~(j > q)]]

dec_mask_nopad(t) ==
    [kind |-> "tensor",
     bits |-> [bb \in DOMAIN t |-> subsequent_mask(Len(t[bb]))]]

\* pad_mask(x) & subsequent_mask: the query dimension of pad_mask broadcasts.
dec_mask(t) ==
    LET seq_len == Len(t[1])
        sub == subsequent_mask(seq_len)
        pm == pad_mask(t)
    IN  [kind |-> "tensor",
         bits |-> [bb \in DOMAIN t |->
                    [q \in 1..seq_len |->
                      [j \in 1..seq_len |-> pm.bits[bb][1][j] /\ sub[q][j]]]]]

shift_right_nostart(lab) ==
    [bb \in DOMAIN lab |->
      [k \in DOMAIN lab[bb] |-> IF k >= 2 THEN lab[bb][k - 1] ELSE 0]]

\* shifted = zeros; shifted[:, 1:] = labels[:, :-1]; shifted[:, 0] = pad_id
shift_right(lab) ==
    LET zeros == [bb \in DOMAIN lab |-> [k \in DOMAIN lab[bb] |-> 0]]
        moved == [bb \in DOMAIN lab |->
                   [k \in DOMAIN lab[bb] |->
                     IF k >= 2 THEN lab[bb][k - 1] ELSE zeros[bb][k]]]
    IN  [bb \in DOMAIN lab |->
          [k \in DOMAIN lab[bb] |-> IF k = 1 THEN pad_id ELSE moved[bb][k]]]

(***************************************************************************)
(* Hidden states as terms.  Embeddings, LayerNorm, MultiHeadAttention and  *)
(* PositionwiseFeedForward come from model/simple.py; each is the          *)
(* application of a named module to its arguments.  A module is named by   *)
(* <<stack, layer, attribute>> (clones() gives every layer its own copy).  *)
(***************************************************************************)
Mod(stack, l, name) == <<stack, l, name>>

Leaf(name, shape) == <<"leaf", name, shape>>
Embeddings(stack, ids) == <<"emb", stack, ids>>
BertModel(ids, am) == <<"bert", ids, am>>
LayerNorm(owner, t) == <<"norm", owner, t>>
Dropout(owner, t) == <<"dropout", owner, t>>
MultiHeadAttention(module, q, k, v, mask) == <<"attn", module, q, k, v, mask>>
PositionwiseFeedForward(module, t) == <<"pff", module, t>>
Add(t, u) == <<"add", t, u>>
Mul(t, c) == <<"mul", t, c>>

\* <<batch, seq_len>> of a hidden state (hidden_dim is the same everywhere).
RECURSIVE ShapeOf(_)
ShapeOf(t) ==
    CASE t[1] = "leaf" -> t[3]
      [] t[1] \in {"emb", "bert"} ->
            <<Len(t[IF t[1] = "emb" THEN 3 ELSE 2]),
              Len(t[IF t[1] = "emb" THEN 3 ELSE 2][1])>>
      [] t[1] \in {"norm", "dropout", "pff", "attn"} -> ShapeOf(t[3])
      [] t[1] \in {"add", "mul"} -> ShapeOf(t[2])
      [] OTHER -> <<0, 0>>

\* MultiHeadAttention's contract on its mask: a tensor broadcastable to
\* (batch, heads, len_q, len_k); anything else fails fast.
MaskFits(mask, q, k) ==
    /\ mask.kind = "tensor"
    /\ Len(mask.bits) = ShapeOf(q)[1]
    /\ \A bb \in DOMAIN mask.bits :
          /\ Len(mask.bits[bb]) \in {1, ShapeOf(q)[2]}
          /\ \A r \in DOMAIN mask.bits[bb] : Len(mask.bits[bb][r]) = ShapeOf(k)[2]

\* The callables handed to Sublayer.forward, as data: the module called, the
\* key/value tensor a cross-attention captures and the mask.
\*   lambda x: attn(x, x, x, mask)
SelfAttnFn(module, mask) ==
    [op |-> "self", module |-> module, kv |-> NoTerm, mask |-> mask]
\*   lambda x: attn(x, kv, kv, mask)
CrossAttnFn(module, kv, mask) ==
    [op |-> "cross", module |-> module, kv |-> kv, mask |-> mask]
\*   self.pff
FeedForwardFn(module) ==
    [op |-> "pff", module |-> module, kv |-> NoTerm, mask |-> NoMask]

\* sublayer(arg)
Apply(f, arg) ==
    CASE f.op = "self" -> MultiHeadAttention(f.module, arg, arg, arg, f.mask)
      [] f.op = "cross" -> MultiHeadAttention(f.module, arg, f.kv, f.kv, f.mask)
      [] f.op = "pff" -> PositionwiseFeedForward(f.module, arg)

\* Sublayer.forward: dropout(sublayer(norm(x))); no residual is added here.
Sublayer(owner, t, f) == Dropout(owner, Apply(f, LayerNorm(owner, t)))

(***************************************************************************)
(* EncoderLayer.forward, line by line.                                     *)
(***************************************************************************)
EncBertBranch(l, t, mask, bout) ==
    Sublayer(Mod("encoder", l, "b_sublayer"), t,
             CrossAttnFn(Mod("encoder", l, "bert_attn"), bout, mask))

EncSelfBranch(l, t, mask) ==
    Sublayer(Mod("encoder", l, "s_sublayer"), t,
             SelfAttnFn(Mod("encoder", l, "self_attn"), mask))

FuseFull(res, t, u) == Add(Add(res, t), u)

\* residual + s * 0.5 + b * 0.5
Fuse(res, t, u) == Add(Add(res, Mul(t, "0.5")), Mul(u, "0.5"))

FeedForwardBlock(stack, l, t) ==
    Add(t, Sublayer(Mod(stack, l, "p_sublayer"), t,
                    FeedForwardFn(Mod(stack, l, "pff"))))

(***************************************************************************)
(* The state before a call of FusedModel.forward or FusedModel.genreate.   *)
(***************************************************************************)
ZeroIds(nb, len) == [bb \in 1..nb |-> [k \in 1..len |-> 0]]

\* The tokenizer's attention mask: 1 at the tokens, 0 at the padding.
AttentionMaskOf(ids, pad) ==
    [bb \in DOMAIN ids |-> [j \in DOMAIN ids[bb] |-> IF ids[bb][j] # pad THEN 1 ELSE 0]]

Call(fn, l, args) == [fn |-> fn, layer |-> l, args |-> args]

Locals0 ==
    /\ err = "none"
    /\ shifted_labels = NoIds
    /\ e_mask = NoMask
    /\ d_mask = NoMask
    /\ bert_out = NoTerm
    /\ memory = NoTerm
    /\ x = NoTerm
    /\ layer = 0
    /\ residual = NoTerm
    /\ s = NoTerm
    /\ b = NoTerm
    /\ e = NoTerm
    /\ m = NoMask
    /\ bo = NoTerm
    /\ calls = <<>>
    /\ preds = NoIds
    /\ i = 0
    /\ steps = 0

NoRun ==
    /\ task = "none"
    /\ mode = "none"
    /\ model_name = "none"
    /\ ckpt_exists = FALSE

Init ==
    /\ call \in {"forward", "genreate"}
    /\ pc = "start"
    /\ pad_id \in PadIds
    /\ \E nb \in 1..MaxBatch :
          /\ \E sl \in 1..MaxSrc : input_ids \in Matrices(nb, sl)
          /\ IF call = "forward"
                THEN /\ \E tl \in 1..MaxTrg : labels \in Matrices(nb, tl)
                     /\ max_len = MaxGen
                ELSE /\ labels = NoIds
                     /\ max_len \in 1..MaxGen
    /\ attention_mask = AttentionMaskOf(input_ids, pad_id)
    /\ Locals0
    /\ NoRun

run_vars == <<task, mode, model_name, ckpt_exists>>
arg_vars == <<call, pad_id, max_len, input_ids, attention_mask, labels>>
layer_vars == <<x, layer, residual, s, b, e>>
stack_vars == <<m, bo>>
gen_vars == <<preds, i, steps>>

Raise(name) == pc' = "raised" /\ err' = name

(***************************************************************************)
(* FusedModel.forward                                                      *)
(***************************************************************************)
\* shifted_labels = self.shift_right(labels)
FwdShift ==
    /\ call = "forward" /\ pc = "start"
    /\ shifted_labels' = shift_right(labels)
    /\ pc' = "fwd_e_mask"
    /\ UNCHANGED <<arg_vars, run_vars, layer_vars, stack_vars, gen_vars, err,
                   e_mask, d_mask, bert_out, memory, calls>>

TupleOf(mask) == [kind |-> "tuple", bits |-> mask.bits]

\* e_mask = self.pad_mask(input_ids),     (the trailing comma makes a 1-tuple)
FwdEncMask ==
    /\ pc = "fwd_e_mask"
    /\ e_mask' = TupleOf(pad_mask(input_ids))
    /\ pc' = "fwd_d_mask"
    /\ UNCHANGED <<arg_vars, run_vars, layer_vars, stack_vars, gen_vars, err,
                   shifted_labels, d_mask, bert_out, memory, calls>>

\* d_mask = self.dec_mask(shifted_labels)
FwdDecMask ==
    /\ pc = "fwd_d_mask"
    /\ d_mask' = dec_mask(shifted_labels)
    /\ pc' = "fwd_bert"
    /\ UNCHANGED <<arg_vars, run_vars, layer_vars, stack_vars, gen_vars, err,
                   shifted_labels, e_mask, bert_out, memory, calls>>

\* bert_out = self.bert(input_ids, attention_mask).last_hidden_state
FwdBert ==
    /\ pc = "fwd_bert"
    /\ bert_out' = BertModel(input_ids, attention_mask)
    /\ pc' = "fwd_encoder"
    /\ UNCHANGED <<arg_vars, run_vars, layer_vars, stack_vars, gen_vars, err,
                   shifted_labels, e_mask, d_mask, memory, calls>>

\* memory = self.encoder(input_ids, e_mask, bert_out): enters Encoder.forward
FwdEncoder ==
    /\ pc = "fwd_encoder"
    /\ m' = e_mask
    /\ bo' = bert_out
    /\ calls' = Append(calls, Call("encoder", 0, <<input_ids, e_mask, bert_out>>))
    /\ pc' = "enc_emb"
    /\ UNCHANGED <<arg_vars, run_vars, layer_vars, gen_vars, err,
                   shifted_labels, e_mask, d_mask, bert_out, memory>>

(***************************************************************************)
(* Encoder.forward and EncoderLayer.forward                                *)
(***************************************************************************)
\* x = self.emb(x), then the first turn of `for layer in self.layers`
EncEmb ==
    /\ pc = "enc_emb"
    /\ x' = Embeddings("encoder", input_ids)
    /\ layer' = 1
    /\ pc' = IF NLayers >= 1 THEN "enc_bert" ELSE "enc_norm"
    /\ UNCHANGED <<arg_vars, run_vars, stack_vars, gen_vars, err, residual, s, b, e,
                   shifted_labels, e_mask, d_mask, bert_out, memory, calls>>

\* layer(x, mask, bert_out): residual = x;
\* b = self.b_sublayer(x, lambda x: self.bert_attn(x, b, b, mask))
EncLayerBert ==
    /\ pc = "enc_bert"
    /\ calls' = Append(calls, Call("EncoderLayer", layer, <<x, m, bo>>))
    /\ residual' = x
    /\ LET nx == LayerNorm(Mod("encoder", layer, "b_sublayer"), x)
       IN  IF MaskFits(m, nx, bo)
              THEN /\ b' = EncBertBranch(layer, x, m, bo)
                   /\ pc' = "enc_self"
                   /\ err' = err
              ELSE /\ b' = b
                   /\ Raise("MaskError")
    /\ UNCHANGED <<arg_vars, run_vars, stack_vars, gen_vars, x, layer, s, e,
                   shifted_labels, e_mask, d_mask, bert_out, memory>>

\* s = self.s_sublayer(x, lambda x: self.self_attn(x, x, x, mask))
EncLayerSelf ==
    /\ pc = "enc_self"
    /\ LET nx == LayerNorm(Mod("encoder", layer, "s_sublayer"), x)
       IN  IF MaskFits(m, nx, nx)
              THEN /\ s' = EncSelfBranch(layer, x, m)
                   /\ pc' = "enc_fuse"
                   /\ err' = err
              ELSE /\ s' = s
                   /\ Raise("MaskError")
    /\ UNCHANGED <<arg_vars, run_vars, stack_vars, gen_vars, x, layer, residual, b, e,
                   shifted_labels, e_mask, d_mask, bert_out, memory, calls>>

\* x = residual + s * 0.5 + b * 0.5
EncLayerFuse ==
    /\ pc = "enc_fuse"
    /\ x' = Fuse(residual, s, b)
    /\ pc' = "enc_ffn"
    /\ UNCHANGED <<arg_vars, run_vars, stack_vars, gen_vars, err, layer, residual,
                   s, b, e, shifted_labels, e_mask, d_mask, bert_out, memory, calls>>

\* residual = x; x = self.p_sublayer(x, self.pff); return residual + x,
\* and the next turn of the encoder's loop
EncLayerFFN ==
    /\ pc = "enc_ffn"
    /\ residual' = x
    /\ x' = FeedForwardBlock("encoder", layer, x)
    /\ layer' = layer + 1
    /\ pc' = IF layer < NLayers THEN "enc_bert" ELSE "enc_norm"
    /\ UNCHANGED <<arg_vars, run_vars, stack_vars, gen_vars, err, s, b, e,
                   shifted_labels, e_mask, d_mask, bert_out, memory, calls>>

\* return self.norm(x), assigned to memory by the caller
EncNorm ==
    /\ pc = "enc_norm"
    /\ memory' = LayerNorm(Mod("encoder", 0, "norm"), x)
    /\ pc' = CASE call = "forward" -> "fwd_decoder"
                [] call = "genreate" -> "gen_preds"
                [] OTHER -> "returned"
    /\ UNCHANGED <<arg_vars, run_vars, layer_vars, stack_vars, gen_vars, err,
                   shifted_labels, e_mask, d_mask, bert_out, calls>>

(***************************************************************************)
(* FusedModel.genreate                                                     *)
(***************************************************************************)
\* batch_size = input_ids.size(0); e_mask = self.pad_mask(input_ids)
GenEncMask ==
    /\ call = "genreate" /\ pc = "start"
    /\ e_mask' = pad_mask(input_ids)
    /\ pc' = "gen_bert"
    /\ UNCHANGED <<arg_vars, run_vars, layer_vars, stack_vars, gen_vars, err,
                   shifted_labels, d_mask, bert_out, memory, calls>>

\* bert_out = self.bert(input_ids, attention_mask).last_hidden_state
GenBert ==
    /\ pc = "gen_bert"
    /\ bert_out' = BertModel(input_ids, attention_mask)
    /\ pc' = "gen_encoder"
    /\ UNCHANGED <<arg_vars, run_vars, layer_vars, stack_vars, gen_vars, err,
                   shifted_labels, e_mask, d_mask, memory, calls>>

\* memory = self.encoder(input_ids, e_mask, bert_out): enters Encoder.forward
GenEncoder ==
    /\ pc = "gen_encoder"
    /\ m' = e_mask
    /\ bo' = bert_out
    /\ calls' = Append(calls, Call("encoder", 0, <<input_ids, e_mask, bert_out>>))
    /\ pc' = "enc_emb"
    /\ UNCHANGED <<arg_vars, run_vars, layer_vars, gen_vars, err,
                   shifted_labels, e_mask, d_mask, bert_out, memory>>

\* preds = torch.zeros(batch_size, self.max_len); i = 1, the start of the range
GenPreds ==
    /\ pc = "gen_preds"
    /\ preds' = ZeroIds(Len(input_ids), max_len)
    /\ i' = 1
    /\ pc' = "gen_loop"
    /\ UNCHANGED <<arg_vars, run_vars, layer_vars, stack_vars, err, steps,
                   shifted_labels, e_mask, d_mask, bert_out, memory, calls>>

\* for i in range(1, self.max_len): one more turn, or the loop is over
GenLoop ==
    /\ pc = "gen_loop"
    /\ pc' = IF i < max_len THEN "gen_d_mask" ELSE "gen_return"
    /\ UNCHANGED <<arg_vars, run_vars, layer_vars, stack_vars, gen_vars, err,
                   shifted_labels, e_mask, d_mask, bert_out, memory, calls>>

\* d_mask = self.dec_mask(preds)
GenDecMask ==
    /\ pc = "gen_d_mask"
    /\ d_mask' = dec_mask(preds)
    /\ pc' = "gen_decoder"
    /\ UNCHANGED <<arg_vars, run_vars, layer_vars, stack_vars, gen_vars, err,
                   shifted_labels, e_mask, bert_out, memory, calls>>

\* Decoder.forward(self, x, memory, e_mask, d_mask, bert_out)
DecoderParams == <<"x", "memory", "e_mask", "d_mask", "bert_out">>

\* dec_out = self.decoder(preds, memory, e_mask, d_mask): four arguments for
\* five parameters, so python raises TypeError before Decoder.forward runs
GenDecoder ==
    /\ pc = "gen_decoder"
    /\ LET args == <<preds, memory, e_mask, d_mask>>
       IN  /\ calls' = Append(calls, Call("decoder", 0, args))
           /\ steps' = steps + 1
           /\ Len(args) # Len(DecoderParams)
           /\ Raise("TypeError")
    /\ UNCHANGED <<arg_vars, run_vars, layer_vars, stack_vars, preds, i,
                   shifted_labels, e_mask, d_mask, bert_out, memory>>

\* return preds.tolist()
GenReturn ==
    /\ pc = "gen_return"
    /\ pc' = "returned"
    /\ UNCHANGED <<arg_vars, run_vars, layer_vars, stack_vars, gen_vars, err,
                   shifted_labels, e_mask, d_mask, bert_out, memory, calls>>

Next ==
    \/ FwdShift \/ FwdEncMask \/ FwdDecMask \/ FwdBert \/ FwdEncoder
    \/ EncEmb \/ EncLayerBert \/ EncLayerSelf \/ EncLayerFuse \/ EncLayerFFN
    \/ EncNorm
    \/ GenEncMask \/ GenBert \/ GenEncoder \/ GenPreds \/ GenLoop \/ GenDecMask
    \/ GenDecoder \/ GenReturn

Spec == Init /\ [][Next]_vars

(***************************************************************************)
(* FusedModel.shift_right and FusedModel.dec_mask applied to any tensor of *)
(* token ids.                                                              *)
(***************************************************************************)
InitFn ==
    /\ call = "fn"
    /\ pc = "start"
    /\ pad_id \in PadIds
    /\ max_len = MaxGen
    /\ \E nb \in 1..MaxBatch : \E tl \in 1..MaxLen : labels \in Matrices(nb, tl)
    /\ input_ids = NoIds /\ attention_mask = NoIds
    /\ Locals0
    /\ NoRun

\* self.shift_right(labels)
FnShiftRight ==
    /\ call = "fn" /\ pc = "start"
    /\ shifted_labels' = shift_right(labels)
    /\ pc' = "fn_dec_mask"
    /\ UNCHANGED <<arg_vars, run_vars, layer_vars, stack_vars, gen_vars, err,
                   e_mask, d_mask, bert_out, memory, calls>>

\* self.dec_mask(x), on the same tensor
FnDecMask ==
    /\ pc = "fn_dec_mask"
    /\ d_mask' = dec_mask(labels)
    /\ pc' = "returned"
    /\ UNCHANGED <<arg_vars, run_vars, layer_vars, stack_vars, gen_vars, err,
                   shifted_labels, e_mask, bert_out, memory, calls>>

NextFn == FnShiftRight \/ FnDecMask

SpecFn == InitFn /\ [][NextFn]_vars

(***************************************************************************)
(* The loop of Encoder.forward over its layers, on any arguments: the      *)
(* embedded input x, the mask (a tensor, or the 1-tuple forward builds)    *)
(* and bert_out.                                                           *)
(***************************************************************************)
MaskBits(nb, len) == [1..nb -> [1..1 -> [1..len -> BOOLEAN]]]

InitEncoder ==
    /\ call = "encoder"
    /\ pc = "enc_bert"
    /\ err = "none"
    /\ pad_id = 0
    /\ max_len = MaxGen
    /\ input_ids = NoIds /\ attention_mask = NoIds /\ labels = NoIds
    /\ shifted_labels = NoIds
    /\ e_mask = NoMask /\ d_mask = NoMask
    /\ bert_out = NoTerm /\ memory = NoTerm
    /\ \E nb \in 1..MaxBatch : \E sl \in 1..MaxSrc :
          /\ x = Leaf("x", <<nb, sl>>)
          /\ \E bits \in MaskBits(nb, sl) :
                m \in {[kind |-> "tensor", bits |-> bits],
                       TupleOf([kind |-> "tensor", bits |-> bits])}
          /\ bo = Leaf("bert_out", <<nb, sl>>)
    /\ layer = 1
    /\ residual = NoTerm /\ s = NoTerm /\ b = NoTerm /\ e = NoTerm
    /\ calls = <<>>
    /\ preds = NoIds /\ i = 0 /\ steps = 0
    /\ NoRun

NextEncoder ==
    EncLayerBert \/ EncLayerSelf \/ EncLayerFuse \/ EncLayerFFN \/ EncNorm

SpecEncoder == InitEncoder /\ [][NextEncoder]_vars

(***************************************************************************)
(* The arguments forward builds for its loss (lines 192-194).              *)
(***************************************************************************)
RECURSIVE Flatten(_)
Flatten(rows) == IF rows = <<>> THEN <<>> ELSE Head(rows) \o Flatten(Tail(rows))

\* The attributes FusedModel.__init__ sets on self (lines 124-137);
\* vocab_size is not one of them: it is only handed to nn.Linear.
Attributes ==
    {"device", "pad_id", "max_len", "bert", "encoder", "decoder", "fc_out",
     "criterion", "outputs"}

\* tensor.view(-1) of a slice with nb rows of cols entries taken from rows of
\* rowlen entries: the slice shares the storage, and it can be viewed flat
\* only when its rows are adjacent there or there is at most one entry to a row
\* or one row.
ViewFlat(nb, cols, rowlen) == nb <= 1 \/ cols <= 1 \/ cols = rowlen

\* logits.view(-1, self.vocab_size): one row per decoder position of every
\* element; reading self.vocab_size raises
LossInputRows(dec_in) ==
    IF "vocab_size" \in Attributes
    THEN [raised |-> "none", rows |-> Len(dec_in) * Len(dec_in[1])]
    ELSE [raised |-> "AttributeError", rows |-> 0]

\* labels[:, 1:].view(-1)
LossTarget(lab) ==
    IF ViewFlat(Len(lab), Len(lab[1]) - 1, Len(lab[1]))
    THEN [raised |-> "none",
          target |-> Flatten([bb \in DOMAIN lab |-> Tail(lab[bb])])]
    ELSE [raised |-> "RuntimeError", target |-> <<>>]

(***************************************************************************)
(* Reading the state.                                                      *)
(***************************************************************************)
Ended == pc \in {"returned", "raised"}

\* The decoder input the current d_mask was built from.
DecoderInput ==
    CASE call = "forward" -> shifted_labels
      [] call = "genreate" -> preds
      [] OTHER -> labels

LastCall == calls[Len(calls)]

\* The value of a term whose named subterms have the values env gives them;
\* the values are even, so that the weight 0.5 is exact.
RECURSIVE Eval(_, _)
Eval(t, env) ==
    IF t \in DOMAIN env THEN env[t]
    ELSE CASE t[1] = "add" -> Eval(t[2], env) + Eval(t[3], env)
           [] t[1] = "mul" /\ t[3] = "0.5" -> Eval(t[2], env) \div 2
           [] t[1] = "mul" /\ t[3] # "0.5" -> Eval(t[2], env)
           [] OTHER -> 0

EvenVals == {-2, 0, 2}

(***************************************************************************)
(* C1: every call of the generation routine ends by returning, after at    *)
(* most max_len - 1 decoder steps, one sequence of at most max_len token   *)
(* ids for each batch element.                                             *)
(***************************************************************************)
C1_GenerateReturns ==
    (call = "genreate" /\ Ended) =>
        /\ pc = "returned"
        /\ steps <= max_len - 1
        /\ Len(preds) = Len(input_ids)
        /\ \A bb \in DOMAIN preds : Len(preds[bb]) <= max_len

C2_Shifted ==
    (shifted_labels # NoIds) =>
        /\ Len(shifted_labels) = Len(labels)
        /\ \A bb \in DOMAIN labels :
              /\ Len(shifted_labels[bb]) = Len(labels[bb])
              /\ shifted_labels[bb][1] = pad_id
              /\ \A k \in 2..Len(labels[bb]) :
                    shifted_labels[bb][k] = labels[bb][k - 1]

(***************************************************************************)
(* C2: shift_right returns, for each batch element, a sequence of the      *)
(* length of the labels with the pad id at position 0 and the original     *)
(* token k-1 at every position k >= 1 (the last token is dropped), and the *)
(* labels are left as they were.                                           *)
(***************************************************************************)
C2_ShiftRight == []C2_Shifted /\ [][labels' = labels]_vars

C2_Witness ==
    /\ shifted_labels # NoIds
    /\ pad_id = 1
    /\ labels = << <<2, 0>>, <<0, 1>> >>
    /\ shifted_labels = << <<1, 2>>, <<1, 0>> >>

(***************************************************************************)
(* C3: the mask dec_mask builds from a decoder input allows query position *)
(* q the key position j exactly when j is not after q and the input at j   *)
(* is not the pad id.                                                      *)
(***************************************************************************)
C3_DecMask ==
    (d_mask # NoMask) =>
        /\ d_mask.kind = "tensor"
        /\ Len(d_mask.bits) = Len(DecoderInput)
        /\ \A bb \in DOMAIN DecoderInput :
              /\ Len(d_mask.bits[bb]) = Len(DecoderInput[bb])
              /\ \A q \in DOMAIN DecoderInput[bb] :
                    /\ Len(d_mask.bits[bb][q]) = Len(DecoderInput[bb])
                    /\ \A j \in DOMAIN DecoderInput[bb] :
                          d_mask.bits[bb][q][j] <=>
                              (j <= q /\ DecoderInput[bb][j] # pad_id)

C3_Witness ==
    /\ d_mask # NoMask
    /\ \E bb \in DOMAIN DecoderInput :
          \E q, j, k \in DOMAIN DecoderInput[bb] :
              /\ j < q /\ k <= q
              /\ d_mask.bits[bb][q][j]
              /\ ~d_mask.bits[bb][j][q]
              /\ DecoderInput[bb][k] = pad_id /\ ~d_mask.bits[bb][q][k]

(***************************************************************************)
(* C4: the training forward pass ends by returning, its loss computed over *)
(* as many label positions as logit positions (one per decoder position),  *)
(* the logit at decoder position q scored against the original label q.    *)
(***************************************************************************)
C4_LossAligned ==
    (call = "forward" /\ pc # "start") =>
        /\ LossInputRows(shifted_labels).raised = "none"
        /\ LossTarget(labels).raised = "none"
        /\ Len(LossTarget(labels).target) = LossInputRows(shifted_labels).rows
        /\ \A bb \in DOMAIN labels : \A q \in DOMAIN labels[bb] :
              LossTarget(labels).target[(bb - 1) * Len(labels[bb]) + q]
                  = labels[bb][q]
        /\ Ended => pc = "returned"

EncLayerDone == pc \in {"enc_bert", "enc_norm"} /\ layer > 1

(***************************************************************************)
(* C6: an encoder layer computes the self-attention branch s and the       *)
(* pretrained-context branch b from the same input x of the layer, fuses   *)
(* them as x1 = x + 0.5*s + 0.5*b and returns x1 + wrap(x1, feed_forward); *)
(* zeroing one branch changes x1 by half of that branch's value, and the   *)
(* output has the shape of the input.                                      *)
(***************************************************************************)
C6_EncoderLayer ==
    EncLayerDone =>
        LET l == layer - 1
            xin == LastCall.args[1]
            ns == <<"norm", <<"encoder", l, "s_sublayer">>, xin>>
            nb == <<"norm", <<"encoder", l, "b_sublayer">>, xin>>
            x1 == residual
            np == <<"norm", <<"encoder", l, "p_sublayer">>, x1>>
        IN  /\ LastCall.fn = "EncoderLayer" /\ LastCall.layer = l
            /\ s = <<"dropout", <<"encoder", l, "s_sublayer">>,
                     <<"attn", <<"encoder", l, "self_attn">>, ns, ns, ns, m>> >>
            /\ b = <<"dropout", <<"encoder", l, "b_sublayer">>,
                     <<"attn", <<"encoder", l, "bert_attn">>, nb, bo, bo, m>> >>
            /\ x1 = <<"add", <<"add", xin, <<"mul", s, "0.5">> >>,
                             <<"mul", b, "0.5">> >>
            /\ x = <<"add", x1, <<"dropout", <<"encoder", l, "p_sublayer">>,
                                  <<"pff", <<"encoder", l, "pff">>, np>> >> >>
            /\ ShapeOf(x) = ShapeOf(xin)
            /\ \A vx, vs, vb \in EvenVals :
                  LET env(ws, wb) == (xin :> vx) @@ (s :> ws) @@ (b :> wb)
                  IN  /\ 2 * (Eval(x1, env(vs, vb)) - Eval(x1, env(0, vb))) = vs
                      /\ 2 * (Eval(x1, env(vs, vb)) - Eval(x1, env(vs, 0))) = vb
                      /\ 2 * Eval(x1, env(vs, vb)) = 2 * vx + vs + vb

C6_Witness ==
    /\ pc = "enc_norm" /\ layer = NLayers + 1
    /\ ShapeOf(x) = <<2, 2>>
    /\ m.bits[1][1] = <<TRUE, FALSE>>
    /\ LastCall.fn = "EncoderLayer" /\ LastCall.layer = NLayers
    /\ x[1] = "add" /\ x[2] = residual /\ residual[2][2] = LastCall.args[1]

SrcMask ==
    [kind |-> "tensor",
     bits |-> [bb \in DOMAIN input_ids |->
                <<[j \in DOMAIN input_ids[bb] |-> input_ids[bb][j] # pad_id]>>]]

(***************************************************************************)
(* C8: within one call the encoder-side padding mask (true exactly at the  *)
(* source ids that are not the pad id), bert_out and memory are the values *)
(* handed to the encoder stack, to every encoder layer and to every        *)
(* invocation of the decoder stack.                                        *)
(***************************************************************************)
C8_SharedContext ==
    \A n \in DOMAIN calls :
        LET c == calls[n]
        IN  /\ c.fn = "encoder" =>
                  /\ Len(c.args) = 3
                  /\ c.args[2] = SrcMask
                  /\ c.args[3] = bert_out
            /\ c.fn = "EncoderLayer" =>
                  /\ c.args[2] = SrcMask
                  /\ c.args[3] = bert_out
            /\ c.fn = "decoder" =>
                  /\ Len(c.args) = 5
                  /\ c.args[2] = memory
                  /\ c.args[3] = SrcMask
                  /\ c.args[5] = bert_out

UsedQuery(bb, q) ==
    IF call = "forward" THEN labels[bb][q] # pad_id
    ELSE q = Len(DecoderInput[bb])

(***************************************************************************)
(* C10: whenever a decoder-side mask is built for a run of the decoder     *)
(* stack, every query position whose output is used (scored against a      *)
(* label that is not the pad id in training, read for the arg-max at the   *)
(* last position in generation) is allowed at least one key position.      *)
(***************************************************************************)
C10_NoEmptyRow ==
    (d_mask # NoMask) =>
        \A bb \in DOMAIN DecoderInput : \A q \in DOMAIN DecoderInput[bb] :
            UsedQuery(bb, q) =>
                \E j \in DOMAIN DecoderInput[bb] : d_mask.bits[bb][q][j]

(***************************************************************************)
(* Decoder.forward and DecoderLayer.forward, on any arguments: decoder     *)
(* input ids x, memory, e_mask, d_mask and bert_out.                       *)
(***************************************************************************)
InitDecoder ==
    /\ call = "decoder"
    /\ pc = "dec_emb"
    /\ err = "none"
    /\ pad_id \in PadIds
    /\ max_len = MaxGen
    /\ input_ids = NoIds /\ attention_mask = NoIds /\ labels = NoIds
    /\ shifted_labels = NoIds
    /\ \E nb \in 1..MaxBatch :
          /\ \E tl \in 1..MaxDec : x \in Matrices(nb, tl)
          /\ \E sl \in 1..MaxSrc :
                /\ \E bits \in MaskBits(nb, sl) :
                      e_mask = [kind |-> "tensor", bits |-> bits]
                /\ memory = Leaf("memory", <<nb, sl>>)
                /\ bert_out = Leaf("bert_out", <<nb, sl>>)
    /\ d_mask = dec_mask(x)
    /\ layer = 0
    /\ residual = NoTerm /\ s = NoTerm /\ b = NoTerm /\ e = NoTerm
    /\ m = NoMask /\ bo = NoTerm
    /\ calls = <<>>
    /\ preds = NoIds /\ i = 0 /\ steps = 0
    /\ NoRun

dec_fixed == <<arg_vars, run_vars, stack_vars, gen_vars, shifted_labels, e_mask,
               d_mask, bert_out, memory>>

\* x = self.emb(x), then the first turn of `for layer in self.layers`
DecEmb ==
    /\ pc = "dec_emb"
    /\ x' = Embeddings("decoder", x)
    /\ layer' = 1
    /\ pc' = IF NLayers >= 1 THEN "dec_self" ELSE "dec_norm"
    /\ UNCHANGED <<dec_fixed, err, residual, s, b, e, calls>>

DecSelfBranch(l, t, dmask) ==
    Sublayer(Mod("decoder", l, "s_sublayer"), t,
             SelfAttnFn(Mod("decoder", l, "self_attn"), dmask))

\* layer(x, memory, e_mask, d_mask, bert_out): residual = x;
\* s = self.s_sublayer(x, lambda x: self.self_attn(x, x, x, d_mask));
\* x = residual + s
DecLayerSelf ==
    /\ pc = "dec_self"
    /\ calls' = Append(calls, Call("DecoderLayer", layer,
                                   <<x, memory, e_mask, d_mask, bert_out>>))
    /\ residual' = x
    /\ LET nx == LayerNorm(Mod("decoder", layer, "s_sublayer"), x)
       IN  IF MaskFits(d_mask, nx, nx)
              THEN /\ s' = DecSelfBranch(layer, x, d_mask)
                   /\ x' = Add(x, s')
                   /\ pc' = "dec_bert"
                   /\ err' = err
              ELSE /\ s' = s /\ x' = x
                   /\ Raise("MaskError")
    /\ UNCHANGED <<dec_fixed, layer, b, e>>

DecBertBranch(l, t, emask, bout) ==
    Sublayer(Mod("decoder", l, "b_sublayer"), t,
             CrossAttnFn(Mod("decoder", l, "bert_attn"), bout, emask))

\* residual = x; b = self.b_sublayer(x, lambda x: self.bert_attn(x, b, b, e_mask))
DecLayerBert ==
    /\ pc = "dec_bert"
    /\ residual' = x
    /\ LET nx == LayerNorm(Mod("decoder", layer, "b_sublayer"), x)
       IN  IF MaskFits(e_mask, nx, bert_out)
              THEN /\ b' = DecBertBranch(layer, x, e_mask, bert_out)
                   /\ pc' = "dec_mem"
                   /\ err' = err
              ELSE /\ b' = b
                   /\ Raise("MaskError")
    /\ UNCHANGED <<dec_fixed, x, layer, s, e, calls>>

\* e = self.b_sublayer(x, lambda x: self.bert_attn(x, m, m, e_mask)): the
\* wrapper and the attention module are those of the line before
DecMemBranch(l, t, emask, mem) ==
    Sublayer(Mod("decoder", l, "b_sublayer"), t,
             CrossAttnFn(Mod("decoder", l, "bert_attn"), mem, emask))

DecLayerMem ==
    /\ pc = "dec_mem"
    /\ LET nx == LayerNorm(Mod("decoder", layer, "b_sublayer"), x)
       IN  IF MaskFits(e_mask, nx, memory)
              THEN /\ e' = DecMemBranch(layer, x, e_mask, memory)
                   /\ pc' = "dec_fuse"
                   /\ err' = err
              ELSE /\ e' = e
                   /\ Raise("MaskError")
    /\ UNCHANGED <<dec_fixed, x, layer, residual, s, b, calls>>

\* x = residual + b * 0.5 + e * 0.5
DecLayerFuse ==
    /\ pc = "dec_fuse"
    /\ x' = Add(Add(residual, Mul(b, "0.5")), Mul(e, "0.5"))
    /\ pc' = "dec_ffn"
    /\ UNCHANGED <<dec_fixed, err, layer, residual, s, b, e, calls>>

\* residual = x; x = self.p_sublayer(x, self.pff); return residual + x,
\* and the next turn of the decoder's loop
DecLayerFFN ==
    /\ pc = "dec_ffn"
    /\ residual' = x
    /\ x' = FeedForwardBlock("decoder", layer, x)
    /\ layer' = layer + 1
    /\ pc' = IF layer < NLayers THEN "dec_self" ELSE "dec_norm"
    /\ UNCHANGED <<dec_fixed, err, s, b, e, calls>>

\* return self.norm(x)
DecNorm ==
    /\ pc = "dec_norm"
    /\ x' = LayerNorm(Mod("decoder", 0, "norm"), x)
    /\ pc' = "returned"
    /\ UNCHANGED <<dec_fixed, err, layer, residual, s, b, e, calls>>

NextDecoder ==
    \/ DecEmb \/ DecLayerSelf \/ DecLayerBert \/ DecLayerMem \/ DecLayerFuse
    \/ DecLayerFFN \/ DecNorm

SpecDecoder == InitDecoder /\ [][NextDecoder]_vars

DecLayerDone == pc \in {"dec_self", "dec_norm"} /\ layer > 1

(***************************************************************************)
(* C5: a decoder layer computes x1 = x + wrap_s(x, self_attention) with a  *)
(* full residual, then from x1 the pretrained-context branch b (bert_attn  *)
(* under b_sublayer, over bert_out) and the memory branch e (the layer's   *)
(* own enc_dec_attn under e_sublayer, over memory), both with e_mask, then *)
(* x2 = x1 + 0.5*b + 0.5*e and the output x2 + wrap_p(x2, feed_forward).   *)
(***************************************************************************)
C5_DecoderLayer ==
    DecLayerDone =>
        LET l == layer - 1
            xin == LastCall.args[1]
            ns == <<"norm", <<"decoder", l, "s_sublayer">>, xin>>
            x1 == <<"add", xin, s>>
            nb == <<"norm", <<"decoder", l, "b_sublayer">>, x1>>
            ne == <<"norm", <<"decoder", l, "e_sublayer">>, x1>>
            x2 == residual
            np == <<"norm", <<"decoder", l, "p_sublayer">>, x2>>
        IN  /\ s = <<"dropout", <<"decoder", l, "s_sublayer">>,
                     <<"attn", <<"decoder", l, "self_attn">>, ns, ns, ns, d_mask>> >>
            /\ b = <<"dropout", <<"decoder", l, "b_sublayer">>,
                     <<"attn", <<"decoder", l, "bert_attn">>,
                       nb, bert_out, bert_out, e_mask>> >>
            /\ e = <<"dropout", <<"decoder", l, "e_sublayer">>,
                     <<"attn", <<"decoder", l, "enc_dec_attn">>,
                       ne, memory, memory, e_mask>> >>
            /\ x2 = <<"add", <<"add", x1, <<"mul", b, "0.5">> >>,
                             <<"mul", e, "0.5">> >>
            /\ x = <<"add", x2, <<"dropout", <<"decoder", l, "p_sublayer">>,
                                  <<"pff", <<"decoder", l, "pff">>, np>> >> >>

(***************************************************************************)
(* The start-up of run.py: the three asserts of the __main__ block, then   *)
(* main() up to the construction of Config.                                *)
(***************************************************************************)
TaskNames == {"ende", "deen"}
ModeNames == {"train", "test", "inference"}
ModelNames == {"simple", "fused", "generation"}

InitMain ==
    /\ call = "main"
    /\ pc = "assert_task"
    /\ task \in TaskNames \cup {"enfr"}
    /\ mode \in ModeNames \cup {"valid"}
    /\ model_name \in ModelNames \cup {"bert"}
    /\ ckpt_exists \in BOOLEAN
    /\ pad_id = 0
    /\ max_len = MaxGen
    /\ input_ids = NoIds /\ attention_mask = NoIds /\ labels = NoIds
    /\ Locals0

main_fixed == <<arg_vars, run_vars, layer_vars, stack_vars, gen_vars,
                shifted_labels, e_mask, d_mask, bert_out, memory, calls>>

\* assert args.task in ['ende', 'deen']
AssertTask ==
    /\ pc = "assert_task"
    /\ IF task \in TaskNames
          THEN pc' = "assert_mode" /\ err' = err
          ELSE Raise("AssertionError")
    /\ UNCHANGED main_fixed

\* assert args.mode in ['train', 'test', 'inference']
AssertMode ==
    /\ pc = "assert_mode"
    /\ IF mode \in ModeNames
          THEN pc' = "assert_model" /\ err' = err
          ELSE Raise("AssertionError")
    /\ UNCHANGED main_fixed

\* assert args.model in ['simple', 'fused', 'generation']
AssertModel ==
    /\ pc = "assert_model"
    /\ IF model_name \in ModelNames
          THEN pc' = "main" /\ err' = err
          ELSE Raise("AssertionError")
    /\ UNCHANGED main_fixed

\* Config.__init__(self, task, mode, model)
ConfigParams == <<"task", "mode", "model">>

\* main(args): set_seed(42); config = Config(args.task, args.task): two
\* arguments for three parameters, so python raises TypeError
MainConfig ==
    /\ pc = "main"
    /\ LET args == <<task, task>>
       IN  IF Len(args) = Len(ConfigParams)
              THEN pc' = "load_model" /\ err' = err
              ELSE Raise("TypeError")
    /\ UNCHANGED main_fixed

NextMain == AssertTask \/ AssertMode \/ AssertModel \/ MainConfig

SpecMain == InitMain /\ [][NextMain]_vars

BadConfig ==
    \/ task \notin TaskNames
    \/ mode \notin ModeNames
    \/ model_name \notin ModelNames
    \/ (mode # "train" /\ ~ckpt_exists)

(***************************************************************************)
(* C9: a run whose task, mode or model is outside its enumeration, or      *)
(* whose mode is not train while the checkpoint is missing, never gets     *)
(* past start-up; every other run does not fail at start-up, and goes on   *)
(* to load the model and dispatch the mode's routine.                      *)
(***************************************************************************)
C9_StartUp ==
    /\ BadConfig => pc \in {"assert_task", "assert_mode", "assert_model", "main",
                            "load_model", "raised"}
    /\ ~BadConfig => pc # "raised"

(***************************************************************************)
(* C7: a turn of the generation loop that the early stop does not cut      *)
(* writes, for every batch element, the arg-max token of the last position *)
(* into the buffer at sequence index i, leaves every other entry as it     *)
(* was, and goes on to the next turn; the buffer stays batch x max_len.    *)
(***************************************************************************)
C7_StepWrites ==
    [][(pc = "gen_decoder") =>
          /\ pc' \in {"gen_loop", "gen_return"}
          /\ Len(preds') = Len(preds)
          /\ \A bb \in DOMAIN preds :
                /\ Len(preds'[bb]) = max_len
                /\ \A k \in DOMAIN preds[bb] :
                      (k # i + 1 \/ pc' = "gen_return") => preds'[bb][k] = preds[bb][k]
       ]_vars

====
